---- MODULE Spec2Model ----
(***************************************************************************)
(* Change-aware polling caches of the two Cloudflare workers:              *)
(*   - the Goodreads worker (src/goodreads-worker.js)                      *)
(*   - the Spotify worker   (src/unnamed/part_002)                         *)
(* Each worker has an on-demand handler (fetch) and a cron handler         *)
(* (scheduled) over one KV key.  A handler is modelled by a Begin step     *)
(* (the KV get and the freshness / interval gate) and a Finish step (the   *)
(* upstream calls, the comparison, the put and the response); time may     *)
(* pass between the two.  One deployment serves one source, so the worker  *)
(* is fixed in the initial state.                                          *)
(***************************************************************************)
EXTENDS Integers, Sequences, FiniteSets, TLC

(* ------------------------------------------------------------------ *)
(* Program constants                                                  *)
(* ------------------------------------------------------------------ *)
CACHE_TTL_MS == 3600000
KV_TTL == 300
SCHEDULE_INTERVAL == 120000
FETCH_CACHE_TTL == 30000
\* the Goodreads update period the README documents (30 minutes)
GOODREADS_POLL_INTERVAL == 1800000

(* ------------------------------------------------------------------ *)
(* Bounds of the model                                                *)
(* ------------------------------------------------------------------ *)
\* number of times the clock advances in a behaviour
MaxAdvances == 2
\* the put counter saturates here
MaxPuts == 2
\* number of times the clock advances where a request and a tick may overlap
MaxOverlapAdvances == 1

(* ------------------------------------------------------------------ *)
(* Values                                                             *)
(* ------------------------------------------------------------------ *)
\* JavaScript null / undefined of an object-valued expression, and "no entry"
Null == [null |-> TRUE]

\* an absent / undefined / empty string id (falsy in JavaScript)
NoId == ""

\* an absent numeric field (timestamp, lastRun) reads as undefined: falsy, as 0
NoTime == 0

\* Date.now() at the start of a behaviour: any positive number of ms
Epoch == 1000000

Workers == {"goodreads", "spotify"}

\* Goodreads: a book of the feed (title, author: identity; cover, link: display)
Book(t, a, c) == [title |-> t, author |-> a, cover |-> c, link |-> "l"]

Dune1 == Book("Dune", "Herbert", "c1")
Dune2 == Book("Dune", "Herbert", "c2")
Emma1 == Book("Emma", "Austen", "c1")

\* the <item> lists a well-formed feed may carry
Feeds == {<<>>, <<Dune1>>, <<Dune2>>, <<Emma1, Dune1>>}

\* Spotify: a normalized track (trackId, isPlaying: identity; the rest: display)
Track(id, playing, art) ==
  [isPlaying |-> playing, title |-> id, artist |-> "ar", album |-> "al",
   albumArt |-> art, songUrl |-> "u", trackId |-> id, type |-> "track"]

\* what currently-playing may report: an item and whether it is playing
Playbacks == {[item |-> [id |-> "T1", art |-> "a1"], is_playing |-> TRUE],
              [item |-> [id |-> "T1", art |-> "a1"], is_playing |-> FALSE],
              [item |-> [id |-> "T1", art |-> "a2"], is_playing |-> TRUE],
              [item |-> [id |-> "T2", art |-> "a1"], is_playing |-> TRUE]}

\* what recently-played may list first
RecentItems == {[id |-> "T1", art |-> "a1"]}

NoItem == [id |-> NoId, art |-> ""]

(* ------------------------------------------------------------------ *)
(* Goodreads: pure functions                                          *)
(* ------------------------------------------------------------------ *)
\* xml: [wellFormed, items]; in a malformed body the <item> pattern matches
\* nothing
parseGoodreadsRSS(xml) ==
  LET items == IF xml.wellFormed THEN xml.items ELSE <<>>
  IN  IF Len(items) = 0
        THEN [current |-> Null, previous |-> Null]
        ELSE [current  |-> items[1],
              previous |-> IF Len(items) >= 2 THEN items[2] ELSE Null]

hasBookChanged_NullIsChange(newBooks, existingBooks) ==
  IF existingBooks = Null \/ existingBooks.current = Null THEN TRUE
  ELSE IF newBooks = Null \/ newBooks.current = Null THEN TRUE
  ELSE newBooks.current.title # existingBooks.current.title
       \/ newBooks.current.author # existingBooks.current.author

\* a comparison that looks at the title alone
hasBookChanged_TitleOnly(newBooks, existingBooks) ==
  IF existingBooks = Null \/ existingBooks.current = Null THEN TRUE
  ELSE IF newBooks = Null \/ newBooks.current = Null THEN FALSE
  ELSE newBooks.current.title # existingBooks.current.title

hasBookChanged(newBooks, existingBooks) ==
  IF existingBooks = Null \/ existingBooks.current = Null THEN TRUE
  ELSE IF newBooks = Null \/ newBooks.current = Null THEN FALSE
  ELSE newBooks.current.title # existingBooks.current.title
       \/ newBooks.current.author # existingBooks.current.author

\* upstream responses of the RSS request: a network exception, or a status
\* with a body
GoodreadsResponses ==
  {[threw |-> TRUE, ok |-> FALSE, body |-> [wellFormed |-> FALSE, items |-> <<>>]],
   [threw |-> FALSE, ok |-> FALSE, body |-> [wellFormed |-> FALSE, items |-> <<>>]],
   [threw |-> FALSE, ok |-> TRUE, body |-> [wellFormed |-> FALSE, items |-> <<>>]]}
  \cup {[threw |-> FALSE, ok |-> TRUE, body |-> [wellFormed |-> TRUE, items |-> f]]
          : f \in Feeds}

\* a 200 response whose body is not a parsable feed
Malformed(r) == ~r.threw /\ r.ok /\ ~r.body.wellFormed

\* [threw, val]: the text of the response, or the exception
fetchGoodreadsRSS(r) ==
  IF r.threw \/ ~r.ok THEN [threw |-> TRUE, val |-> Null]
  ELSE [threw |-> FALSE, val |-> r.body]

(* ------------------------------------------------------------------ *)
(* Spotify: pure functions                                            *)
(* ------------------------------------------------------------------ *)
\* token endpoint: [threw, ok]
getAccessToken(r) ==
  IF r.threw \/ ~r.ok THEN [threw |-> TRUE] ELSE [threw |-> FALSE]

\* currently-playing endpoint: [threw, status, body, is_playing, item];
\* body is "empty", "badjson", "noitem" or "item"
getNowPlaying(r) ==
  IF r.threw THEN [threw |-> TRUE, val |-> Null]
  ELSE IF r.status = 204 THEN [threw |-> FALSE, val |-> Null]
  ELSE IF r.status # 200 THEN [threw |-> TRUE, val |-> Null]
  ELSE IF r.body = "empty" THEN [threw |-> FALSE, val |-> Null]
  ELSE IF r.body = "badjson" THEN [threw |-> TRUE, val |-> Null]
  ELSE IF r.body = "noitem" THEN [threw |-> FALSE, val |-> Null]
  ELSE [threw |-> FALSE, val |-> Track(r.item.id, r.is_playing, r.item.art)]

\* recently-played endpoint: [threw, status, items]
getRecentlyPlayed(r) ==
  IF r.threw THEN [threw |-> TRUE, val |-> Null]
  ELSE IF r.status # 200 THEN [threw |-> FALSE, val |-> Null]
  ELSE IF Len(r.items) = 0 THEN [threw |-> FALSE, val |-> Null]
  ELSE [threw |-> FALSE, val |-> Track(r.items[1].id, FALSE, r.items[1].art)]

\* JSON.stringify of a track: the fields in the order they were written; two
\* texts are equal exactly when every field is
Stringify(track) ==
  <<track.isPlaying, track.title, track.artist, track.album,
    track.albumArt, track.songUrl, track.trackId, track.type>>

\* a comparison that looks at the trackId alone
tracksEqual_IdOnly(track1, track2) ==
  IF track1 = Null /\ track2 = Null THEN TRUE
  ELSE IF track1 = Null \/ track2 = Null THEN FALSE
  ELSE track1.trackId = track2.trackId

tracksEqual(track1, track2) ==
  IF track1 = Null /\ track2 = Null THEN TRUE
  ELSE IF track1 = Null \/ track2 = Null THEN FALSE
  ELSE IF track1.trackId # NoId /\ track2.trackId # NoId
    THEN track1.trackId = track2.trackId /\ track1.isPlaying = track2.isPlaying
  ELSE Stringify(track1) = Stringify(track2)

NowPlayingResponses ==
  {[threw |-> TRUE, status |-> 0, body |-> "empty", is_playing |-> FALSE, item |-> NoItem],
   [threw |-> FALSE, status |-> 204, body |-> "empty", is_playing |-> FALSE, item |-> NoItem],
   [threw |-> FALSE, status |-> 401, body |-> "empty", is_playing |-> FALSE, item |-> NoItem],
   [threw |-> FALSE, status |-> 200, body |-> "empty", is_playing |-> FALSE, item |-> NoItem],
   [threw |-> FALSE, status |-> 200, body |-> "badjson", is_playing |-> FALSE, item |-> NoItem],
   [threw |-> FALSE, status |-> 200, body |-> "noitem", is_playing |-> FALSE, item |-> NoItem]}
  \cup {[threw |-> FALSE, status |-> 200, body |-> "item",
          is_playing |-> p.is_playing, item |-> p.item] : p \in Playbacks}

RecentlyPlayedResponses ==
  {[threw |-> TRUE, status |-> 0, items |-> <<>>],
   [threw |-> FALSE, status |-> 500, items |-> <<>>],
   [threw |-> FALSE, status |-> 200, items |-> <<>>]}
  \cup {[threw |-> FALSE, status |-> 200, items |-> <<i>>] : i \in RecentItems}

TokenResponses ==
  {[threw |-> TRUE, ok |-> FALSE], [threw |-> FALSE, ok |-> FALSE],
   [threw |-> FALSE, ok |-> TRUE]}

(* ------------------------------------------------------------------ *)
(* The KV namespace: one key per worker                               *)
(* ------------------------------------------------------------------ *)
\* the stored value is the JSON text of {data, timestamp[, lastRun]}; read
\* back with get(key, 'json') its fields are what was written, an absent
\* lastRun reading as undefined.  expiration: absolute time the key expires
\* (NoTime: never).
KVGet(s, t) ==
  IF s # Null /\ (s.expiration = NoTime \/ t < s.expiration)
    THEN [data |-> s.data, timestamp |-> s.timestamp, lastRun |-> s.lastRun]
    ELSE Null

\* put(key, JSON.stringify(value), {expirationTtl: ttl}) at time t; ttl in
\* seconds, 0 for a put without options
KVPut(value, ttl, t) ==
  [data |-> value.data, timestamp |-> value.timestamp, lastRun |-> value.lastRun,
   expiration |-> IF ttl = 0 THEN NoTime ELSE t + ttl * 1000]

(* ------------------------------------------------------------------ *)
(* State                                                              *)
(* ------------------------------------------------------------------ *)
VARIABLES
  worker,      \* which worker this deployment runs
  now,         \* Date.now()
  advances,    \* how many times the clock has advanced
  store,       \* the KV entry (Null: none)
  req,         \* the on-demand invocation in flight: [pc, cached]
  sch,         \* the scheduled invocation in flight: [pc, existing, now0]
  last,        \* what the most recently completed invocation did
  puts,        \* number of successful puts so far (saturating at MaxPuts)
  history,     \* the Records the successful fetches returned so far
  tickFetchAt, \* start time of the last tick that fetched a Record (NoTime: none)
  args,        \* the two arguments of a call of the worker's comparison
  result,      \* what the call returned: [done, val]
  first,       \* of two overlapping invocations, what the first to end did
  reqFetch     \* start times of the requests that fetched: [pending, at]

vars == <<worker, now, advances, store, req, sch, last, puts, history, tickFetchAt,
          args, result, first, reqFetch>>

IdleReq == [pc |-> "idle", cached |-> Null]
IdleSch == [pc |-> "idle", existing |-> Null, now0 |-> NoTime]

\* the record of an invocation; the handlers fill in what they did
NoLast ==
  [path |-> "none",       \* "fetch" | "scheduled"
   gated |-> FALSE,       \* returned before any upstream call (cache hit, throttle)
   getFailed |-> FALSE,   \* the KV get threw
   read |-> Null,         \* the entry the get returned
   called |-> FALSE,      \* an upstream request was made
   failed |-> FALSE,      \* an upstream call threw
   threwAt |-> "",        \* which one: "rss", "token", "nowPlaying", "recentlyPlayed"
   softFail |-> FALSE,    \* recently-played answered non-200 (swallowed)
   fetched |-> Null,      \* the Record of a successful fetch
   put |-> FALSE,         \* a put succeeded
   putFailed |-> FALSE,   \* a put threw
   status |-> 0,          \* HTTP status of the response (0: no response)
   body |-> Null,         \* body of the response
   uncaught |-> FALSE,    \* an exception left the handler
   torn |-> FALSE,        \* the platform ended the invocation before it returned
   queried |-> <<>>,      \* Spotify: the endpoints asked, in the order of the calls
   active |-> Null,       \* Spotify: the track currently-playing returned
   malformed |-> FALSE]   \* Goodreads: a 200 response whose body is no feed

\* the body of the 500 response: {error, message}
ErrorBody_NoMessage == [error |-> "Failed to fetch data"]

ErrorBody == [error |-> "Failed to fetch data", message |-> "error.message"]

\* the outer catch of a scheduled handler logs the exception and returns;
\* the value is whether the exception leaves the handler
ScheduledCatch_Rethrows(thrown) == thrown

ScheduledCatch(thrown) == FALSE

NoHistory == [kind |-> "none", rec |-> Null]

NoArgs == <<Null, Null>>

\* stage: "none", "open" (the other invocation is still in flight) or "closed"
\* (the other invocation has ended too, and last tells what it did)
NoFirst == [stage |-> "none", path |-> "none", read |-> Null, fetched |-> Null,
            ok |-> FALSE, put |-> FALSE, stored |-> Null]

\* pending: start time of the request in flight; at: start time of the last
\* request that fetched; clean: no upstream call and no put has failed so far
NoReqFetch == [pending |-> NoTime, at |-> NoTime, clean |-> TRUE]
NoResult == [done |-> FALSE, val |-> FALSE]

\* history after a fetch returned Record r
Observe(h, r) ==
  IF h.kind = "none" THEN [kind |-> "same", rec |-> r]
  ELSE IF h.kind = "same" /\ h.rec = r THEN h
  ELSE [kind |-> "mixed", rec |-> Null]

\* history after a fetch failed
ObserveFailure(h) == [kind |-> "mixed", rec |-> Null]

CountPut(n) == IF n < MaxPuts THEN n + 1 ELSE n

Init ==
  /\ worker \in Workers
  /\ now = Epoch
  /\ advances = 0
  /\ store = Null
  /\ req = IdleReq
  /\ sch = IdleSch
  /\ last = NoLast
  /\ puts = 0
  /\ history = NoHistory
  /\ tickFetchAt = NoTime
  /\ first = NoFirst
  /\ reqFetch = NoReqFetch
  /\ args = NoArgs
  /\ result = NoResult

\* time passes: by half a freshness window, or by one of the intervals the
\* code compares against
Steps(w) ==
  IF w = "spotify"
    THEN {FETCH_CACHE_TTL \div 2, SCHEDULE_INTERVAL, KV_TTL * 1000}
    ELSE {CACHE_TTL_MS \div 2, CACHE_TTL_MS}

Advance ==
  /\ advances < MaxAdvances
  /\ \E d \in Steps(worker) : now' = now + d
  /\ advances' = advances + 1
  /\ UNCHANGED <<worker, store, req, sch, last>>

(* ------------------------------------------------------------------ *)
(* Goodreads worker: fetch (on-demand)                                *)
(* ------------------------------------------------------------------ *)
\* if (cached?.data): there is cached data to answer with when the fetch fails
HasStaleData_Never(cached) == FALSE

HasStaleData(cached) == cached # Null /\ cached.data # Null

\* a handler without the freshness check: every request goes on to fetch
GoodreadsFetchBegin_NoCache ==
  /\ worker = "goodreads"
  /\ req.pc = "idle"
  /\ \E getOk \in BOOLEAN :
       IF ~getOk
         THEN /\ last' = [NoLast EXCEPT !.path = "fetch", !.getFailed = TRUE,
                            !.status = 500, !.body = ErrorBody]
              /\ req' = req
         ELSE /\ req' = [pc |-> "fetching", cached |-> KVGet(store, now)]
              /\ last' = last
  /\ UNCHANGED <<worker, now, advances, store, sch>>

\* the get, then the freshness check; a fresh entry is answered from the cache
GoodreadsFetchBegin ==
  /\ worker = "goodreads"
  /\ req.pc = "idle"
  /\ \E getOk \in BOOLEAN :
       IF ~getOk
         THEN /\ last' = [NoLast EXCEPT !.path = "fetch", !.getFailed = TRUE,
                            !.status = 500, !.body = ErrorBody]
              /\ req' = req
         ELSE LET cached == KVGet(store, now)
                  cacheValid == /\ cached # Null
                                /\ cached.timestamp # NoTime
                                /\ now - cached.timestamp < CACHE_TTL_MS
              IN  IF cacheValid
                    THEN /\ last' = [NoLast EXCEPT !.path = "fetch", !.gated = TRUE,
                                       !.read = cached, !.status = 200,
                                       !.body = cached.data]
                         /\ req' = req
                    ELSE /\ req' = [pc |-> "fetching", cached |-> cached]
                         /\ last' = last
  /\ UNCHANGED <<worker, now, advances, store, sch>>

\* a handler that answers with the stored books when there are any
GoodreadsFetchFinish_ServesStored ==
  /\ worker = "goodreads"
  /\ req.pc = "fetching"
  /\ \E f \in Feeds :
       LET books == parseGoodreadsRSS([wellFormed |-> TRUE, items |-> f])
       IN  last' = [NoLast EXCEPT !.path = "fetch", !.read = req.cached,
                      !.called = TRUE, !.fetched = books, !.status = 200,
                      !.body = IF HasStaleData(req.cached) THEN req.cached.data
                               ELSE books]
  /\ store' = store
  /\ req' = IdleReq
  /\ UNCHANGED <<worker, now, advances, sch>>

\* the RSS request, the comparison, the put and the response
GoodreadsFetchFinish ==
  /\ worker = "goodreads"
  /\ req.pc = "fetching"
  /\ \E r \in GoodreadsResponses, putOk \in BOOLEAN :
       LET cached == req.cached
           xml == fetchGoodreadsRSS(r)
           base == [NoLast EXCEPT !.path = "fetch", !.read = cached,
                      !.called = TRUE, !.malformed = Malformed(r)]
       IN  IF xml.threw
             THEN \* stale cache if there is one, else the error
                  /\ IF HasStaleData(cached)
                       THEN last' = [base EXCEPT !.failed = TRUE, !.threwAt = "rss",
                                       !.status = 200, !.body = cached.data]
                       ELSE last' = [base EXCEPT !.failed = TRUE, !.threwAt = "rss",
                                       !.status = 500, !.body = ErrorBody]
                  /\ store' = store
             ELSE LET books == parseGoodreadsRSS(xml.val)
                      existingBooks == IF cached # Null /\ cached.data # Null
                                         THEN cached.data ELSE Null
                      bookChanged == hasBookChanged(books, existingBooks)
                      cacheData ==
                        IF bookChanged
                          THEN [data |-> books, timestamp |-> now, lastRun |-> NoTime]
                        ELSE IF cached = Null
                          THEN [data |-> books, timestamp |-> now, lastRun |-> NoTime]
                        ELSE [data |-> existingBooks, timestamp |-> now,
                              lastRun |-> NoTime]
                  IN  IF putOk
                        THEN /\ store' = KVPut(cacheData, 0, now)
                             /\ last' = [base EXCEPT !.fetched = books, !.put = TRUE,
                                           !.status = 200, !.body = books]
                        ELSE /\ store' = store
                             /\ last' = [base EXCEPT !.fetched = books,
                                           !.putFailed = TRUE, !.status = 500,
                                           !.body = ErrorBody]
  /\ req' = IdleReq
  /\ UNCHANGED <<worker, now, advances, sch>>

(* ------------------------------------------------------------------ *)
(* Goodreads worker: scheduled                                        *)
(* ------------------------------------------------------------------ *)
\* if (!bookChanged && existingBooks): the tick returns without a write
SkipWrite(bookChanged, existingBooks) == ~bookChanged /\ existingBooks # Null

\* a handler that would skip the tick while the entry is younger than the
\* documented update period
GoodreadsScheduledBegin_Throttled ==
  /\ worker = "goodreads"
  /\ sch.pc = "idle"
  /\ \E getOk \in BOOLEAN :
       IF ~getOk
         THEN /\ last' = [NoLast EXCEPT !.path = "scheduled", !.getFailed = TRUE,
                            !.uncaught = ScheduledCatch(TRUE)]
              /\ sch' = sch
         ELSE LET existingCache == KVGet(store, now)
              IN  IF /\ existingCache # Null
                     /\ now - existingCache.timestamp < GOODREADS_POLL_INTERVAL
                    THEN /\ last' = [NoLast EXCEPT !.path = "scheduled",
                                       !.gated = TRUE, !.read = existingCache]
                         /\ sch' = sch
                    ELSE /\ sch' = [pc |-> "fetching", existing |-> existingCache,
                                    now0 |-> now]
                         /\ last' = last
  /\ UNCHANGED <<worker, now, advances, store, req>>

\* the get; the handler has no interval check
GoodreadsScheduledBegin ==
  /\ worker = "goodreads"
  /\ sch.pc = "idle"
  /\ \E getOk \in BOOLEAN :
       IF ~getOk
         THEN /\ last' = [NoLast EXCEPT !.path = "scheduled", !.getFailed = TRUE,
                            !.uncaught = ScheduledCatch(TRUE)]
              /\ sch' = sch
         ELSE /\ sch' = [pc |-> "fetching", existing |-> KVGet(store, now),
                         now0 |-> now]
              /\ last' = last
  /\ UNCHANGED <<worker, now, advances, store, req>>

GoodreadsScheduledFinish ==
  /\ worker = "goodreads"
  /\ sch.pc = "fetching"
  /\ \E r \in GoodreadsResponses, putOk \in BOOLEAN :
       LET existingCache == sch.existing
           existingBooks == IF existingCache # Null /\ existingCache.data # Null
                              THEN existingCache.data ELSE Null
           xml == fetchGoodreadsRSS(r)
           base == [NoLast EXCEPT !.path = "scheduled", !.read = existingCache,
                      !.called = TRUE, !.malformed = Malformed(r)]
       IN  IF xml.threw
             THEN /\ last' = [base EXCEPT !.failed = TRUE, !.threwAt = "rss"]
                  /\ store' = store
             ELSE LET books == parseGoodreadsRSS(xml.val)
                      bookChanged == hasBookChanged(books, existingBooks)
                      cacheData == [data |-> books, timestamp |-> now,
                                    lastRun |-> NoTime]
                  IN  IF SkipWrite(bookChanged, existingBooks)
                        THEN /\ last' = [base EXCEPT !.fetched = books]
                             /\ store' = store
                      ELSE IF putOk
                        THEN /\ store' = KVPut(cacheData, 0, now)
                             /\ last' = [base EXCEPT !.fetched = books, !.put = TRUE]
                      ELSE /\ store' = store
                           /\ last' = [base EXCEPT !.fetched = books,
                                         !.putFailed = TRUE,
                                         !.uncaught = ScheduledCatch(TRUE)]
  /\ sch' = IdleSch
  /\ UNCHANGED <<worker, now, advances, req>>

(* ------------------------------------------------------------------ *)
(* Spotify worker: what the three endpoints answer in one invocation  *)
(* ------------------------------------------------------------------ *)
TokenOk == [threw |-> FALSE, ok |-> TRUE]
NowPlaying204 ==
  [threw |-> FALSE, status |-> 204, body |-> "empty", is_playing |-> FALSE,
   item |-> NoItem]
RecentlyPlayedNone == [threw |-> FALSE, status |-> 200, items |-> <<>>]

\* an endpoint that is not reached is given one fixed answer
SpotifyOutcomes ==
  {[tok |-> t, np |-> NowPlaying204, rp |-> RecentlyPlayedNone]
     : t \in TokenResponses \ {TokenOk}}
  \cup {[tok |-> TokenOk, np |-> n, rp |-> RecentlyPlayedNone]
          : n \in {x \in NowPlayingResponses :
                     getNowPlaying(x).threw \/ getNowPlaying(x).val # Null}}
  \cup {[tok |-> TokenOk, np |-> n, rp |-> r]
          : n \in {x \in NowPlayingResponses :
                     ~getNowPlaying(x).threw /\ getNowPlaying(x).val = Null},
            r \in RecentlyPlayedResponses}

\* the endpoints a handler asks, in order: the token, then currently-playing,
\* then recently-played if currently-playing returned nothing
Queried_BothEndpoints(o) ==
  IF getAccessToken(o.tok).threw THEN <<"token">>
  ELSE IF getNowPlaying(o.np).threw THEN <<"token", "nowPlaying">>
  ELSE <<"token", "nowPlaying", "recentlyPlayed">>

Queried(o) ==
  IF getAccessToken(o.tok).threw THEN <<"token">>
  ELSE IF getNowPlaying(o.np).threw \/ getNowPlaying(o.np).val # Null
    THEN <<"token", "nowPlaying">>
  ELSE <<"token", "nowPlaying", "recentlyPlayed">>

\* what currently-playing returned, when it was asked and did not throw
Active(o) ==
  IF getAccessToken(o.tok).threw \/ getNowPlaying(o.np).threw THEN Null
  ELSE getNowPlaying(o.np).val

\* recently-played was asked and answered with a status other than 200
RecentlyPlayedRefused(o) ==
  /\ ~getAccessToken(o.tok).threw
  /\ ~getNowPlaying(o.np).threw /\ getNowPlaying(o.np).val = Null
  /\ ~o.rp.threw /\ o.rp.status # 200

(* ------------------------------------------------------------------ *)
(* Spotify worker: fetch (on-demand)                                  *)
(* ------------------------------------------------------------------ *)
\* if (!tracksEqual(track, existingTrack)): the handler writes
TrackChanged_Always(track, existingTrack) == TRUE

TrackChanged(track, existingTrack) == ~tracksEqual(track, existingTrack)

SpotifyFetchBegin ==
  /\ worker = "spotify"
  /\ req.pc = "idle"
  /\ \E getOk \in BOOLEAN :
       IF ~getOk
         THEN /\ last' = [NoLast EXCEPT !.path = "fetch", !.getFailed = TRUE,
                            !.status = 500, !.body = ErrorBody]
              /\ req' = req
         ELSE LET cached == KVGet(store, now)
              IN  IF /\ cached # Null
                     /\ cached.timestamp # NoTime
                     /\ now - cached.timestamp < FETCH_CACHE_TTL
                    THEN /\ last' = [NoLast EXCEPT !.path = "fetch", !.gated = TRUE,
                                       !.read = cached, !.status = 200,
                                       !.body = cached.data]
                         /\ req' = req
                    ELSE /\ req' = [pc |-> "fetching", cached |-> cached]
                         /\ last' = last
  /\ UNCHANGED <<worker, now, advances, store, sch>>

SpotifyFetchFinish ==
  /\ worker = "spotify"
  /\ req.pc = "fetching"
  /\ \E o \in SpotifyOutcomes, putOk \in BOOLEAN :
       LET cached == req.cached
           token == getAccessToken(o.tok)
           nowPlaying == getNowPlaying(o.np)
           recent == getRecentlyPlayed(o.rp)
           threw == \/ token.threw
                    \/ nowPlaying.threw
                    \/ (nowPlaying.val = Null /\ recent.threw)
           threwAt == IF token.threw THEN "token"
                      ELSE IF nowPlaying.threw THEN "nowPlaying"
                      ELSE "recentlyPlayed"
           track == IF nowPlaying.val # Null THEN nowPlaying.val ELSE recent.val
           existingTrack == IF cached # Null /\ cached.data # Null
                              THEN cached.data ELSE Null
           cacheData == [data |-> track, timestamp |-> now, lastRun |-> now]
           base == [NoLast EXCEPT !.path = "fetch", !.read = cached,
                      !.called = TRUE, !.softFail = RecentlyPlayedRefused(o),
                      !.queried = Queried(o), !.active = Active(o)]
       IN  IF threw
             THEN /\ last' = [base EXCEPT !.failed = TRUE, !.threwAt = threwAt,
                                !.status = 500, !.body = ErrorBody]
                  /\ store' = store
           ELSE IF TrackChanged(track, existingTrack)
             THEN IF putOk
                    THEN /\ store' = KVPut(cacheData, KV_TTL, now)
                         /\ last' = [base EXCEPT !.fetched = track, !.put = TRUE,
                                       !.status = 200, !.body = track]
                    ELSE /\ store' = store
                         /\ last' = [base EXCEPT !.fetched = track,
                                       !.putFailed = TRUE, !.status = 500,
                                       !.body = ErrorBody]
           ELSE /\ store' = store
                /\ last' = [base EXCEPT !.fetched = track, !.status = 200,
                              !.body = track]
  /\ req' = IdleReq
  /\ UNCHANGED <<worker, now, advances, sch>>

(* ------------------------------------------------------------------ *)
(* Spotify worker: scheduled                                          *)
(* ------------------------------------------------------------------ *)
\* a handler that records the run (lastRun) before it calls Spotify
SpotifyScheduledBegin_StampsFirst ==
  /\ worker = "spotify"
  /\ sch.pc = "idle"
  /\ LET existingData == KVGet(store, now)
         existingTrack == IF existingData # Null THEN existingData.data ELSE Null
     IN  /\ store' = KVPut([data |-> existingTrack, timestamp |-> now,
                            lastRun |-> now], KV_TTL, now)
         /\ sch' = [pc |-> "fetching", existing |-> existingData, now0 |-> now]
  /\ last' = last
  /\ UNCHANGED <<worker, now, advances, req>>

\* the get, Date.now() and the interval check against the stored lastRun
SpotifyScheduledBegin ==
  /\ worker = "spotify"
  /\ sch.pc = "idle"
  /\ \E getOk \in BOOLEAN :
       IF ~getOk
         THEN /\ last' = [NoLast EXCEPT !.path = "scheduled", !.getFailed = TRUE,
                            !.uncaught = ScheduledCatch(TRUE)]
              /\ sch' = sch
         ELSE LET existingData == KVGet(store, now)
                  lastRun == IF existingData # Null THEN existingData.lastRun
                             ELSE NoTime
              IN  IF lastRun # NoTime /\ now - lastRun < SCHEDULE_INTERVAL
                    THEN /\ last' = [NoLast EXCEPT !.path = "scheduled",
                                       !.gated = TRUE, !.read = existingData]
                         /\ sch' = sch
                    ELSE /\ sch' = [pc |-> "fetching", existing |-> existingData,
                                    now0 |-> now]
                         /\ last' = last
  /\ UNCHANGED <<worker, now, advances, store, req>>

\* a handler that records the run (lastRun) when the token request fails
SpotifyScheduledFinish_StampsFailure ==
  /\ worker = "spotify"
  /\ sch.pc = "fetching"
  /\ LET existingTrack == IF sch.existing # Null THEN sch.existing.data ELSE Null
     IN  store' = KVPut([data |-> existingTrack, timestamp |-> sch.now0,
                         lastRun |-> sch.now0], KV_TTL, now)
  /\ last' = [NoLast EXCEPT !.path = "scheduled", !.read = sch.existing,
                !.called = TRUE, !.failed = TRUE, !.threwAt = "token",
                !.put = TRUE]
  /\ sch' = IdleSch
  /\ UNCHANGED <<worker, now, advances, req>>

\* the token and the two endpoints, the comparison and the put
SpotifyScheduledFinish ==
  /\ worker = "spotify"
  /\ sch.pc = "fetching"
  /\ \E o \in SpotifyOutcomes, putOk \in BOOLEAN :
       LET existingData == sch.existing
           existingTrack == IF existingData # Null /\ existingData.data # Null
                              THEN existingData.data ELSE Null
           token == getAccessToken(o.tok)
           nowPlaying == getNowPlaying(o.np)
           recentlyPlayed == getRecentlyPlayed(o.rp)
           threw == \/ token.threw
                    \/ nowPlaying.threw
                    \/ (nowPlaying.val = Null /\ recentlyPlayed.threw)
           threwAt == IF token.threw THEN "token"
                      ELSE IF nowPlaying.threw THEN "nowPlaying"
                      ELSE "recentlyPlayed"
           newTrack == IF nowPlaying.val # Null THEN nowPlaying.val
                       ELSE recentlyPlayed.val
           cacheData == [data |-> newTrack, timestamp |-> sch.now0,
                         lastRun |-> sch.now0]
           base == [NoLast EXCEPT !.path = "scheduled", !.read = existingData,
                      !.called = TRUE, !.softFail = RecentlyPlayedRefused(o),
                      !.queried = Queried(o), !.active = Active(o)]
       IN  IF threw
             THEN \* the token request is outside the inner try
                  /\ last' = [base EXCEPT !.failed = TRUE, !.threwAt = threwAt,
                                !.uncaught = token.threw /\ ScheduledCatch(TRUE)]
                  /\ store' = store
           ELSE IF newTrack = Null
             THEN \* nothing playing, nothing recent: return without a write
                  /\ last' = [base EXCEPT !.fetched = newTrack]
                  /\ store' = store
           ELSE IF tracksEqual(newTrack, existingTrack)
             THEN /\ last' = [base EXCEPT !.fetched = newTrack]
                  /\ store' = store
           ELSE IF putOk
             THEN /\ store' = KVPut(cacheData, KV_TTL, now)
                  /\ last' = [base EXCEPT !.fetched = newTrack, !.put = TRUE]
           ELSE /\ store' = store
                /\ last' = [base EXCEPT !.fetched = newTrack, !.putFailed = TRUE,
                              !.uncaught = ScheduledCatch(TRUE)]
  /\ sch' = IdleSch
  /\ UNCHANGED <<worker, now, advances, req>>

(* ------------------------------------------------------------------ *)
(* An invocation that does not run to its end                         *)
(* ------------------------------------------------------------------ *)
\* the platform ends an invocation while it awaits its upstream calls: the
\* rest of the handler, the put included, does not run
TearDownRequest ==
  /\ req.pc = "fetching"
  /\ last' = [NoLast EXCEPT !.path = "fetch", !.read = req.cached, !.torn = TRUE]
  /\ req' = IdleReq
  /\ UNCHANGED <<worker, now, advances, store, sch>>

TearDownTick ==
  /\ sch.pc = "fetching"
  /\ last' = [NoLast EXCEPT !.path = "scheduled", !.read = sch.existing,
                !.torn = TRUE]
  /\ sch' = IdleSch
  /\ UNCHANGED <<worker, now, advances, store, req>>

(* ------------------------------------------------------------------ *)
(* History variables                                                  *)
(* ------------------------------------------------------------------ *)
\* not recorded
Frozen == UNCHANGED <<puts, history, tickFetchAt, args, result, first, reqFetch>>

\* a handler's Finish step: count its put and note what its fetch returned
RecordWrites ==
  /\ puts' = IF last'.put THEN CountPut(puts) ELSE puts
  /\ history' = IF last'.failed THEN ObserveFailure(history)
                ELSE Observe(history, last'.fetched)
  /\ tickFetchAt' = tickFetchAt
  /\ UNCHANGED <<args, result, first, reqFetch>>

\* a scheduled Finish step: note when the tick began, if its fetch returned a
\* Record and its put (if any) succeeded
RecordTick ==
  /\ tickFetchAt' = IF last'.failed \/ last'.putFailed \/ last'.fetched = Null
                      THEN tickFetchAt
                    ELSE sch.now0
  /\ UNCHANGED <<puts, history, args, result, first, reqFetch>>

\* a request's Begin step: note when it starts, if it goes on to fetch
RecordRequestStart ==
  /\ reqFetch' = IF req'.pc = "fetching" THEN [reqFetch EXCEPT !.pending = now]
                  ELSE reqFetch
  /\ UNCHANGED <<puts, history, tickFetchAt, args, result, first>>

\* a request's Finish step: it has fetched
RecordRequestEnd ==
  /\ reqFetch' = [pending |-> NoTime, at |-> reqFetch.pending,
                  clean |-> /\ reqFetch.clean
                            /\ ~last'.failed /\ ~last'.softFail /\ ~last'.putFailed]
  /\ UNCHANGED <<puts, history, tickFetchAt, args, result, first>>

\* a step that ends no invocation that fetched: a closed pair is forgotten
KeepFirst ==
  /\ first' = IF first.stage = "closed" THEN NoFirst ELSE first
  /\ UNCHANGED <<puts, history, tickFetchAt, args, result, reqFetch>>

\* a handler's Finish step; otherPc: where the other handler's invocation is.
\* With the other one in flight this invocation is the first of a pair to
\* end (what it did is noted when nothing failed in it); with an open pair
\* of the other path it is the second.
RecordFirst(otherPc) ==
  /\ first' =
       IF otherPc = "fetching"
         THEN IF ~last'.failed /\ ~last'.softFail /\ ~last'.putFailed
                THEN [stage |-> "open", path |-> last'.path, read |-> last'.read,
                      fetched |-> last'.fetched, ok |-> TRUE, put |-> last'.put,
                      stored |-> IF last'.put THEN store'.data ELSE Null]
                ELSE [NoFirst EXCEPT !.stage = "open", !.path = last'.path]
       ELSE IF first.stage = "open" /\ first.path # last'.path
         THEN [first EXCEPT !.stage = "closed"]
       ELSE NoFirst
  /\ UNCHANGED <<puts, history, tickFetchAt, args, result, reqFetch>>

(* ------------------------------------------------------------------ *)
(* Specifications                                                     *)
(* ------------------------------------------------------------------ *)
\* Invocations one after the other: a handler starts only when no other
\* invocation is in flight.
Next ==
  \/ (Advance /\ Frozen)
  \/ (sch.pc = "idle" /\ GoodreadsFetchBegin /\ Frozen)
  \/ (GoodreadsFetchFinish /\ Frozen)
  \/ (req.pc = "idle" /\ GoodreadsScheduledBegin /\ Frozen)
  \/ (GoodreadsScheduledFinish /\ Frozen)
  \/ (sch.pc = "idle" /\ SpotifyFetchBegin /\ Frozen)
  \/ (SpotifyFetchFinish /\ Frozen)
  \/ (req.pc = "idle" /\ SpotifyScheduledBegin /\ Frozen)
  \/ (SpotifyScheduledFinish /\ Frozen)

Spec == Init /\ [][Next]_vars

\* The same, counting the puts and noting the fetched Records.
NextWrites ==
  \/ (Advance /\ Frozen)
  \/ (sch.pc = "idle" /\ GoodreadsFetchBegin /\ Frozen)
  \/ (GoodreadsFetchFinish /\ RecordWrites)
  \/ (req.pc = "idle" /\ GoodreadsScheduledBegin /\ Frozen)
  \/ (GoodreadsScheduledFinish /\ RecordWrites)
  \/ (sch.pc = "idle" /\ SpotifyFetchBegin /\ Frozen)
  \/ (SpotifyFetchFinish /\ RecordWrites)
  \/ (req.pc = "idle" /\ SpotifyScheduledBegin /\ Frozen)
  \/ (SpotifyScheduledFinish /\ RecordWrites)

SpecWrites == Init /\ [][NextWrites]_vars

\* The same, noting when a scheduled tick calls upstream.
NextTicks ==
  \/ (Advance /\ Frozen)
  \/ (sch.pc = "idle" /\ GoodreadsFetchBegin /\ Frozen)
  \/ (GoodreadsFetchFinish /\ Frozen)
  \/ (req.pc = "idle" /\ GoodreadsScheduledBegin /\ Frozen)
  \/ (GoodreadsScheduledFinish /\ RecordTick)
  \/ (sch.pc = "idle" /\ SpotifyFetchBegin /\ Frozen)
  \/ (SpotifyFetchFinish /\ Frozen)
  \/ (req.pc = "idle" /\ SpotifyScheduledBegin /\ Frozen)
  \/ (SpotifyScheduledFinish /\ RecordTick)

SpecTicks == Init /\ [][NextTicks]_vars

\* A request and a tick may overlap.
NextConcurrent ==
  \/ (advances < MaxOverlapAdvances /\ Advance /\ Frozen)
  \/ (GoodreadsFetchBegin /\ Frozen)
  \/ (GoodreadsFetchFinish /\ Frozen)
  \/ (GoodreadsScheduledBegin /\ Frozen)
  \/ (GoodreadsScheduledFinish /\ Frozen)
  \/ (SpotifyFetchBegin /\ Frozen)
  \/ (SpotifyFetchFinish /\ Frozen)
  \/ (SpotifyScheduledBegin /\ Frozen)
  \/ (SpotifyScheduledFinish /\ Frozen)

SpecConcurrent == Init /\ [][NextConcurrent]_vars

\* On-demand requests only, one after the other, noting when they fetch.
NextRequests ==
  \/ (Advance /\ Frozen)
  \/ (GoodreadsFetchBegin /\ RecordRequestStart)
  \/ (GoodreadsFetchFinish /\ RecordRequestEnd)
  \/ (SpotifyFetchBegin /\ RecordRequestStart)
  \/ (SpotifyFetchFinish /\ RecordRequestEnd)

SpecRequests == Init /\ [][NextRequests]_vars

\* Invocations one after the other, any of which the platform may end early.
NextTeardown ==
  \/ (Advance /\ Frozen)
  \/ (sch.pc = "idle" /\ GoodreadsFetchBegin /\ Frozen)
  \/ (GoodreadsFetchFinish /\ Frozen)
  \/ (req.pc = "idle" /\ GoodreadsScheduledBegin /\ Frozen)
  \/ (GoodreadsScheduledFinish /\ Frozen)
  \/ (sch.pc = "idle" /\ SpotifyFetchBegin /\ Frozen)
  \/ (SpotifyFetchFinish /\ Frozen)
  \/ (req.pc = "idle" /\ SpotifyScheduledBegin /\ Frozen)
  \/ (SpotifyScheduledFinish /\ Frozen)
  \/ (TearDownRequest /\ Frozen)
  \/ (TearDownTick /\ Frozen)

SpecTeardown == Init /\ [][NextTeardown]_vars

\* The same, noting what the first of two overlapping invocations did.
NextOverlap ==
  \/ (advances < MaxOverlapAdvances /\ Advance /\ KeepFirst)
  \/ (GoodreadsFetchBegin /\ KeepFirst)
  \/ (GoodreadsFetchFinish /\ RecordFirst(sch.pc))
  \/ (GoodreadsScheduledBegin /\ KeepFirst)
  \/ (GoodreadsScheduledFinish /\ RecordFirst(req.pc))
  \/ (SpotifyFetchBegin /\ KeepFirst)
  \/ (SpotifyFetchFinish /\ RecordFirst(sch.pc))
  \/ (SpotifyScheduledBegin /\ KeepFirst)
  \/ (SpotifyScheduledFinish /\ RecordFirst(req.pc))

SpecOverlap == Init /\ [][NextOverlap]_vars

(* ------------------------------------------------------------------ *)
(* The comparisons on their own                                       *)
(* ------------------------------------------------------------------ *)
\* tracks as the two endpoints build them and as the KV returns them; an item
\* without an id (a local file) gives a track without trackId
TrackInputs ==
  {Null} \cup {Track(id, playing, art) :
                 id \in {NoId, "T1", "T2"}, playing \in BOOLEAN, art \in {"a1", "a2"}}

\* what parseGoodreadsRSS returns
ParsedBooks ==
  {[current |-> c, previous |-> q] :
     c \in {Null, Dune1, Dune2, Emma1, Book("dune", "Herbert", "c1"),
            Book("Dune", "Austen", "c1")},
     q \in {Null, Dune1}}

\* cached?.data || null
StoredBooks == {Null} \cup ParsedBooks

InitCompare ==
  /\ \/ (worker = "spotify" /\ args \in TrackInputs \X TrackInputs)
     \/ (worker = "goodreads" /\ args \in ParsedBooks \X StoredBooks)
  /\ result = NoResult
  /\ now = Epoch
  /\ advances = 0
  /\ store = Null
  /\ req = IdleReq
  /\ sch = IdleSch
  /\ last = NoLast
  /\ puts = 0
  /\ history = NoHistory
  /\ tickFetchAt = NoTime
  /\ first = NoFirst
  /\ reqFetch = NoReqFetch

CallTracksEqual ==
  /\ worker = "spotify"
  /\ ~result.done
  /\ result' = [done |-> TRUE, val |-> tracksEqual(args[1], args[2])]
  /\ UNCHANGED <<worker, now, advances, store, req, sch, last, puts, history,
                 tickFetchAt, args, first, reqFetch>>

CallHasBookChanged ==
  /\ worker = "goodreads"
  /\ ~result.done
  /\ result' = [done |-> TRUE, val |-> hasBookChanged(args[1], args[2])]
  /\ UNCHANGED <<worker, now, advances, store, req, sch, last, puts, history,
                 tickFetchAt, args, first, reqFetch>>

NextCompare == CallTracksEqual \/ CallHasBookChanged

SpecCompare == InitCompare /\ [][NextCompare]_vars

(* ------------------------------------------------------------------ *)
(* Claims                                                             *)
(* ------------------------------------------------------------------ *)
\* data holds a Record rather than "nothing to report"
HasRecord(data) ==
  IF worker = "goodreads" THEN data # Null /\ data.current # Null
  ELSE data # Null

EntryHasRecord(e) == e # Null /\ HasRecord(e.data)

\* the last invocation called upstream, the fetch succeeded and reported nothing
FetchedNothing ==
  /\ last.called /\ ~last.failed
  /\ ~HasRecord(last.fetched)

\* C1: Spotify, both handlers: when the entry read held a non-null track and
\* the fetch succeeds reporting nothing (currently-playing 204 / empty and
\* recently-played without an item), the KV entry still holds that track
\* after the poll.
C1_EmptyPollKeepsTrack ==
  (/\ worker = "spotify"
   /\ FetchedNothing /\ ~last.softFail
   /\ EntryHasRecord(last.read))
  => (store # Null /\ store.data = last.read.data)

\* C2: both workers, both paths: an invocation in which an upstream call
\* failed (an exception, a non-OK status, recently-played's non-200) and
\* which read an entry with a non-null Record makes no put of null data.
C2_NoNullPutOnFailure ==
  (/\ last.put
   /\ (last.failed \/ last.softFail)
   /\ EntryHasRecord(last.read))
  => HasRecord(store.data)

\* C3: Spotify on-demand: with an entry that is past the 30 s window, when
\* the token or the currently-playing request throws, the response is the
\* entry's track with status 200, and there is no put.
C3_SpotifyStaleOnFailure ==
  (/\ worker = "spotify"
   /\ last.path = "fetch"
   /\ last.failed /\ last.threwAt \in {"token", "nowPlaying"}
   /\ last.read # Null)
  => (last.status = 200 /\ last.body = last.read.data /\ ~last.put)

\* C4: Goodreads on-demand: with an entry that is past the 1 h window, when
\* fetchGoodreadsRSS fails, the response is cached.data with status 200, no
\* put is made and the stored entry (timestamp included) is as it was read.
C4_GoodreadsStaleOnFailure ==
  (/\ worker = "goodreads"
   /\ last.path = "fetch"
   /\ last.failed
   /\ last.read # Null)
  => (/\ last.status = 200
      /\ last.body = last.read.data
      /\ ~last.put
      /\ KVGet(store, now) = last.read)

C4_Witness ==
  /\ worker = "goodreads"
  /\ last.path = "fetch"
  /\ last.failed
  /\ EntryHasRecord(last.read)
  /\ now - last.read.timestamp >= CACHE_TTL_MS
  /\ last.status = 200
  /\ last.body = last.read.data

\* C5: Goodreads: while every fetch so far returned the same Record (the
\* null Record included), the store has been written at most once.
C5_GoodreadsOneWrite ==
  (worker = "goodreads" /\ history.kind = "same") => puts <= 1

\* C6: Spotify: while every fetch so far returned the same non-null track,
\* the store has been written at most once, however much time has passed.
C6_SpotifyOneWrite ==
  (worker = "spotify" /\ history.kind = "same" /\ history.rec # Null)
  => puts <= 1

\* C7: Spotify scheduled: a tick that goes on to call the Spotify API starts
\* at least SCHEDULE_INTERVAL after the start of the previous tick that
\* fetched a track, whether or not that tick wrote.
C7_SpotifyOneFetchPerWindow ==
  [][(/\ worker = "spotify"
      /\ sch.pc = "idle" /\ sch'.pc = "fetching"
      /\ tickFetchAt # NoTime)
     => now - tickFetchAt >= SCHEDULE_INTERVAL]_vars

C9_GoodreadsKeepsBook ==
  (/\ worker = "goodreads"
   /\ FetchedNothing
   /\ EntryHasRecord(last.read))
  => (/\ store # Null
      /\ store.data.current # Null
      /\ store.data.current.title = last.read.data.current.title
      /\ store.data.current.author = last.read.data.current.author)

C9_Witness ==
  /\ worker = "goodreads"
  /\ last.path = "fetch"
  /\ FetchedNothing
  /\ EntryHasRecord(last.read)
  /\ last.put
  /\ store.data.current = last.read.data.current

\* C10: on-demand, both workers: when the fetch succeeds with nothing to
\* report, the entry read holds a non-null Record and the put (if any)
\* succeeds, the response is status 200 with the retained prior Record.
C10_ResponseIsPriorRecord ==
  (/\ last.path = "fetch"
   /\ FetchedNothing /\ ~last.putFailed
   /\ EntryHasRecord(last.read))
  => (last.status = 200 /\ last.body = last.read.data)

\* C11: both workers, any interleaving of requests and ticks: a put never
\* stores a timestamp earlier than that of the entry it overwrites.
C11_TimestampNeverDecreases ==
  [][(store # Null /\ store' # store) => store'.timestamp >= store.timestamp]_vars

\* a step that ends a scheduled invocation
TickEnds ==
  /\ last'.path = "scheduled"
  /\ \/ (sch.pc = "fetching" /\ sch'.pc = "idle")
     \/ (sch.pc = "idle" /\ sch'.pc = "idle" /\ last' # last)

\* C12: scheduled handler, both workers: whatever fails (the get, the token
\* request, the upstream fetch, the put), the invocation ends without an
\* exception leaving the handler; a tick in which something failed leaves
\* the store as it was and the handler ready for the next tick.
C12_ScheduledNeverThrows ==
  [][TickEnds =>
       /\ ~last'.uncaught
       /\ sch' = IdleSch
       /\ (last'.getFailed \/ last'.failed \/ last'.putFailed) => store' = store]_vars

C12_Witness ==
  /\ last.path = "scheduled"
  /\ last.putFailed
  /\ ~last.uncaught
  /\ sch = IdleSch

\* C13: on-demand, both workers: when the fetch succeeds and the put throws,
\* the response is still status 200 with the freshly fetched Record.
C13_PutFailureInvisible ==
  (last.path = "fetch" /\ last.putFailed)
  => (last.status = 200 /\ last.body = last.fetched)

\* the track of the entry an invocation read (cached?.data || null)
ReadTrack == IF last.read # Null THEN last.read.data ELSE Null

\* C14: Spotify, both handlers: an invocation puts only when tracksEqual
\* judged the fetched track different from the track of the entry it read,
\* or when it read no entry; when the fetched track is equal to the one read
\* it makes no put.
C14_SpotifyWritesOnlyOnChange ==
  (worker = "spotify" /\ last.called /\ ~last.failed)
  => /\ (last.put \/ last.putFailed)
          => (last.read = Null \/ ~tracksEqual(last.fetched, ReadTrack))
     /\ tracksEqual(last.fetched, ReadTrack) => ~(last.put \/ last.putFailed)

C14_Witness ==
  /\ worker = "spotify"
  /\ last.path = "fetch"
  /\ last.called /\ ~last.failed
  /\ EntryHasRecord(last.read)
  /\ last.fetched # last.read.data
  /\ tracksEqual(last.fetched, last.read.data)
  /\ ~last.put

\* two non-null Records differ in an identity field
IdentityDiffers(new, old) ==
  IF worker = "goodreads"
    THEN \/ new.current.title # old.current.title
         \/ new.current.author # old.current.author
    ELSE new.trackId # old.trackId \/ new.isPlaying # old.isPlaying

\* C15: both workers, both paths: an invocation whose fetch succeeds with a
\* non-null Record that differs in an identity field (title or author;
\* trackId or isPlaying) from the Record of the entry it read makes one put,
\* and a put that succeeds stores the fetched Record.
C15_IdentityChangeIsWritten ==
  (/\ last.called /\ ~last.failed
   /\ HasRecord(last.fetched)
   /\ EntryHasRecord(last.read)
   /\ IdentityDiffers(last.fetched, last.read.data))
  => /\ last.put \/ last.putFailed
     /\ last.put => (store # Null /\ store.data = last.fetched)

\* the same track going from playing to paused
C15_Witness ==
  /\ worker = "spotify"
  /\ last.called /\ ~last.failed
  /\ last.fetched # Null
  /\ EntryHasRecord(last.read)
  /\ last.fetched.trackId = last.read.data.trackId
  /\ last.read.data.isPlaying /\ ~last.fetched.isPlaying
  /\ last.put
  /\ store.data = last.fetched

\* both arguments of the call are tracks
TwoTracks == worker = "spotify" /\ result.done /\ args[1] # Null /\ args[2] # Null

SameIdentity(a, b) == a.trackId = b.trackId /\ a.isPlaying = b.isPlaying

\* C16 (as claimed): tracksEqual(a, b) of two non-null tracks is true exactly
\* when a.trackId = b.trackId and a.isPlaying = b.isPlaying, a missing
\* trackId included; the display fields never matter.
C16_TracksEqualIffIdentity ==
  TwoTracks => (result.val <=> SameIdentity(args[1], args[2]))

\* C16 (amended): when both tracks have a trackId, tracksEqual is true
\* exactly when trackId and isPlaying are equal, whatever the display fields;
\* when a trackId is missing, it is true exactly when the two tracks are
\* equal in every field, display fields included.
C16_TracksEqualWithFallback ==
  TwoTracks =>
    (result.val <=>
       IF args[1].trackId # NoId /\ args[2].trackId # NoId
         THEN SameIdentity(args[1], args[2])
         ELSE args[1] = args[2])

\* two tracks without trackId, same isPlaying, different album art
C16_Witness ==
  /\ TwoTracks
  /\ args[1].trackId = NoId /\ args[2].trackId = NoId
  /\ args[1].isPlaying = args[2].isPlaying
  /\ args[1].albumArt # args[2].albumArt
  /\ ~result.val

\* both arguments of the call have a current book
TwoBooks ==
  /\ worker = "goodreads" /\ result.done
  /\ args[1].current # Null
  /\ args[2] # Null /\ args[2].current # Null

\* C17: hasBookChanged(new, existing) with both current books non-null is
\* true exactly when the titles differ or the authors differ (compared as
\* they are, case included); cover, link and previous never matter.
C17_BookChangedIffIdentity ==
  TwoBooks =>
    (result.val <=> \/ args[1].current.title # args[2].current.title
                    \/ args[1].current.author # args[2].current.author)

\* same title and author, different cover and previous: not changed
C17_Witness ==
  /\ TwoBooks
  /\ args[1].current.title = args[2].current.title
  /\ args[1].current.author = args[2].current.author
  /\ args[1].current.cover # args[2].current.cover
  /\ args[1].previous # args[2].previous
  /\ ~result.val

NoCurrent(books) == books = Null \/ books.current = Null

\* C18: hasBookChanged follows the null contract of the equality policy:
\* nothing against nothing is equal (not changed), a Record against nothing
\* in either order is not equal (changed).
C18_BookNullContract ==
  (worker = "goodreads" /\ result.done)
  => /\ (NoCurrent(args[1]) /\ NoCurrent(args[2])) => ~result.val
     /\ (NoCurrent(args[1]) # NoCurrent(args[2])) => result.val

\* the freshness window of the on-demand path
FreshWindow == IF worker = "goodreads" THEN CACHE_TTL_MS ELSE FETCH_CACHE_TTL

\* the store holds an entry younger than the freshness window
FreshEntry ==
  /\ KVGet(store, now) # Null
  /\ now - KVGet(store, now).timestamp < FreshWindow

\* a step of an on-demand invocation that starts: it ends at once, or goes on
\* to call upstream
RequestStarts ==
  /\ req.pc = "idle"
  /\ \/ req'.pc = "fetching"
     \/ (last'.path = "fetch" /\ last' # last)

\* C19: on-demand, both workers: a request that finds an entry younger than
\* the freshness window (3600000 ms Goodreads, 30000 ms Spotify) answers with
\* the entry's stored data, status 200, without an upstream call or a put;
\* the store is unchanged.
C19_FreshEntryServed ==
  [][(/\ RequestStarts
      /\ FreshEntry
      /\ ~(req'.pc = "idle" /\ last'.getFailed))
     => /\ req'.pc = "idle"
        /\ store' = store
        /\ last'.gated /\ ~last'.called
        /\ ~last'.put /\ ~last'.putFailed
        /\ last'.status = 200
        /\ last'.body = KVGet(store, now).data]_vars

C19_Witness ==
  /\ last.path = "fetch"
  /\ last.gated /\ ~last.called
  /\ EntryHasRecord(last.read)
  /\ now - last.read.timestamp < FreshWindow
  /\ last.status = 200
  /\ last.body = last.read.data
  /\ KVGet(store, now) = last.read

C21_FailedTickWritesNothing ==
  [][(TickEnds /\ last'.called /\ (last'.failed \/ last'.softFail))
     => /\ store' = store
        /\ ~last'.put /\ ~last'.putFailed]_vars

C21_Witness ==
  /\ last.path = "scheduled"
  /\ last.called /\ last.failed
  /\ ~last.put
  /\ EntryHasRecord(last.read)
  /\ KVGet(store, now) = last.read

\* C22: on-demand, both workers: when the freshness window is missed and the
\* fetch succeeds with a non-null Record whose identity fields equal those of
\* the entry read (the display fields may differ), the response is status
\* 200 with the freshly fetched Record, not the stored one.
C22_ResponseIsFreshRecord ==
  (/\ last.path = "fetch"
   /\ last.called /\ ~last.failed /\ ~last.putFailed
   /\ HasRecord(last.fetched)
   /\ EntryHasRecord(last.read)
   /\ ~IdentityDiffers(last.fetched, last.read.data))
  => (last.status = 200 /\ last.body = last.fetched)

\* same book, new cover
C22_Witness ==
  /\ worker = "goodreads"
  /\ last.path = "fetch"
  /\ last.called /\ ~last.failed
  /\ HasRecord(last.fetched)
  /\ EntryHasRecord(last.read)
  /\ ~IdentityDiffers(last.fetched, last.read.data)
  /\ last.fetched.current.cover # last.read.data.current.cover
  /\ last.status = 200
  /\ last.body = last.fetched

\* C23: Goodreads: when a poll succeeds with the book of the entry read
\* (same title and author) under a new cover URL, the stored entry carries
\* the new cover URL after the poll.
C23_NewCoverIsStored ==
  (/\ worker = "goodreads"
   /\ last.called /\ ~last.failed /\ ~last.putFailed
   /\ HasRecord(last.fetched)
   /\ EntryHasRecord(last.read)
   /\ ~IdentityDiffers(last.fetched, last.read.data))
  => (store # Null /\ store.data.current.cover = last.fetched.current.cover)

\* C24: on-demand, both workers: when the fetch succeeds with nothing to
\* report (no item in the feed; nothing playing and nothing recently played)
\* and the request is answered with status 200, the body is JSON null.
C24_NothingToReportIsNull ==
  (/\ last.path = "fetch"
   /\ FetchedNothing /\ ~last.softFail
   /\ last.status = 200)
  => last.body = Null

\* data holds a Record with the identity fields of Record r
HoldsRecord(data, r) == HasRecord(data) /\ ~IdentityDiffers(data, r)

\* a request and a tick overlapped, both read the same entry, both fetched
\* the same non-null Record and nothing failed; both have ended
OverlapSameRecord ==
  /\ first.stage = "closed"
  /\ first.ok
  /\ last.called /\ ~last.failed /\ ~last.softFail /\ ~last.putFailed
  /\ first.read = last.read
  /\ first.fetched = last.fetched
  /\ HasRecord(last.fetched)

C26_NoRegression ==
  [][(/\ store' # store
      /\ store # Null /\ HasRecord(store.data)
      /\ HasRecord(store'.data)
      /\ IdentityDiffers(store'.data, store.data))
     => HoldsRecord(last'.fetched, store'.data)]_vars

\* C27: both workers: the store changes only in the step that ends an
\* invocation, after its upstream calls have returned, and by that
\* invocation's one put; an invocation the platform ends before its put
\* leaves the store as it was.
C27_OnePutAtTheEnd ==
  [][store' # store
     => /\ last'.put /\ last'.called /\ ~last'.torn
        /\ \/ (req.pc = "fetching" /\ req' = IdleReq /\ last'.path = "fetch")
           \/ (sch.pc = "fetching" /\ sch' = IdleSch /\ last'.path = "scheduled")]_vars

\* a torn-down tick after which the store is what the tick read
C27_Witness ==
  /\ last.torn
  /\ last.path = "scheduled"
  /\ EntryHasRecord(last.read)
  /\ KVGet(store, now) = last.read

\* C28: both workers, both paths: an invocation that read no entry and whose
\* fetch succeeded with Record R (possibly nothing to report) and whose put
\* did not fail has written an entry holding R: an entry exists after the
\* first successful poll.
C28_FirstPollCreatesEntry ==
  (/\ last.called /\ ~last.failed /\ ~last.softFail /\ ~last.putFailed
   /\ last.read = Null)
  => (last.put /\ store # Null /\ store.data = last.fetched)

\* C29: both workers: in a run of on-demand requests in which no upstream
\* call and no put has failed, a request that goes on to fetch starts at
\* least one freshness window after the start of the previous request that
\* fetched, whatever that one fetched.
C29_FetchesOneWindowApart ==
  [][(/\ req.pc = "idle" /\ req'.pc = "fetching"
      /\ reqFetch.clean
      /\ reqFetch.at # NoTime)
     => now - reqFetch.at >= FreshWindow]_vars

\* the store holds an entry whose lastRun is less than SCHEDULE_INTERVAL old
RecentRun ==
  /\ KVGet(store, now) # Null
  /\ KVGet(store, now).lastRun # NoTime
  /\ now - KVGet(store, now).lastRun < SCHEDULE_INTERVAL

\* a step of a scheduled invocation that starts: it ends at once, or goes on
\* to call upstream
TickStarts ==
  /\ sch.pc = "idle"
  /\ \/ sch'.pc = "fetching"
     \/ (last'.path = "scheduled" /\ last' # last)

AskedRecent ==
  \E i \in 1..Len(last.queried) : last.queried[i] = "recentlyPlayed"

\* C31: Spotify, both handlers: recently-played is asked only after
\* currently-playing was asked in the same invocation and returned nothing,
\* never when it returned a track; a Record that comes from recently-played
\* has isPlaying = false.
C31_RecentOnlyAsFallback ==
  (worker = "spotify" /\ last.called)
  => /\ AskedRecent
          => /\ last.queried = <<"token", "nowPlaying", "recentlyPlayed">>
             /\ last.active = Null
             /\ last.threwAt # "nowPlaying"
             /\ (last.fetched # Null => ~last.fetched.isPlaying)
     /\ last.active # Null => (~AskedRecent /\ last.fetched = last.active)

\* the fallback gave the Record
C31_Witness ==
  /\ worker = "spotify"
  /\ last.called /\ ~last.failed
  /\ AskedRecent
  /\ last.active = Null
  /\ last.fetched # Null
  /\ ~last.fetched.isPlaying

\* C32: Goodreads adapter (fetchGoodreadsRSS, then parseGoodreadsRSS): a
\* well-formed feed without an item gives the null Record, and a 200 response
\* whose body is not a parsable feed gives a fetch failure and no Record.
C32_MalformedIsFailure ==
  (worker = "goodreads" /\ last.called)
  => /\ last.malformed => (last.failed /\ last.fetched = Null)
     /\ (~last.malformed /\ ~last.failed) => last.fetched # Null

\* the last invocation was a tick that found the upstream Record changed to a
\* new non-null identity and stored it, with nothing failing
TickStoredNewRecord ==
  /\ last.path = "scheduled"
  /\ last.called /\ ~last.failed /\ ~last.softFail /\ ~last.putFailed
  /\ HasRecord(last.fetched)
  /\ EntryHasRecord(last.read)
  /\ IdentityDiffers(last.fetched, last.read.data)
  /\ last.put

\* C33: both workers: once the upstream Record has changed to a new non-null
\* identity and a tick has stored it, the store keeps holding that Record for
\* as long as no later invocation has ended (no fetch has reported anything
\* else and nothing has failed), however time advances.
C33_NewRecordIsKept ==
  [][(/\ TickStoredNewRecord
      /\ last' = last
      /\ EntryHasRecord(KVGet(store, now))
      /\ HoldsRecord(KVGet(store, now).data, last.fetched))
     => (/\ EntryHasRecord(KVGet(store', now'))
         /\ HoldsRecord(KVGet(store', now').data, last.fetched))]_vars

(* ------------------------------------------------------------------ *)
(* The Goodreads worker of src/unnamed/part_001                       *)
(* ------------------------------------------------------------------ *)
Part001 == "goodreads-part_001"

\* parseGoodreadsRSS of part_001: the first item, and no previous book
Part001_parseGoodreadsRSS(xml) ==
  LET items == IF xml.wellFormed THEN xml.items ELSE <<>>
  IN  IF Len(items) = 0 THEN [current |-> Null]
      ELSE [current |-> items[1]]

\* the inline bookChanged of both handlers; books.current?.title is undefined
\* when books.current is null, and undefined !== any stored title
Part001_bookChanged(books, existingBooks) ==
  IF existingBooks = Null \/ existingBooks.current = Null THEN TRUE
  ELSE IF books.current = Null THEN TRUE
  ELSE \/ books.current.title # existingBooks.current.title
       \/ books.current.author # existingBooks.current.author

\* fetch(rssUrl) and response.text(): the body whatever the status is;
\* [threw, val]
Part001_fetchText(r) ==
  IF r.threw THEN [threw |-> TRUE, val |-> Null]
  ELSE [threw |-> FALSE, val |-> r.body]

Part001_ErrorBody ==
  [error |-> "Failed to fetch Goodreads data", message |-> "error.message"]

\* the get, then the freshness check
Part001FetchBegin ==
  /\ worker = Part001
  /\ req.pc = "idle"
  /\ \E getOk \in BOOLEAN :
       IF ~getOk
         THEN /\ last' = [NoLast EXCEPT !.path = "fetch", !.getFailed = TRUE,
                            !.status = 500, !.body = Part001_ErrorBody]
              /\ req' = req
         ELSE LET cached == KVGet(store, now)
              IN  IF /\ cached # Null
                     /\ cached.timestamp # NoTime
                     /\ now - cached.timestamp < 3600000
                    THEN /\ last' = [NoLast EXCEPT !.path = "fetch", !.gated = TRUE,
                                       !.read = cached, !.status = 200,
                                       !.body = cached.data]
                         /\ req' = req
                    ELSE /\ req' = [pc |-> "fetching", cached |-> cached]
                         /\ last' = last
  /\ UNCHANGED <<worker, now, advances, store, sch>>

\* the RSS request, the comparison, the put and the response
Part001FetchFinish ==
  /\ worker = Part001
  /\ req.pc = "fetching"
  /\ \E r \in GoodreadsResponses, putOk \in BOOLEAN :
       LET cached == req.cached
           xml == Part001_fetchText(r)
           base == [NoLast EXCEPT !.path = "fetch", !.read = cached,
                      !.called = TRUE, !.malformed = Malformed(r)]
       IN  IF xml.threw
             THEN /\ last' = [base EXCEPT !.failed = TRUE, !.threwAt = "rss",
                                !.status = 500, !.body = Part001_ErrorBody]
                  /\ store' = store
             ELSE LET books == Part001_parseGoodreadsRSS(xml.val)
                      existingBooks == IF cached # Null /\ cached.data # Null
                                         THEN cached.data ELSE Null
                      bookChanged == Part001_bookChanged(books, existingBooks)
                      cacheData == [data |-> books, timestamp |-> now,
                                    lastRun |-> NoTime]
                  IN  IF ~(bookChanged \/ existingBooks = Null)
                        THEN /\ store' = store
                             /\ last' = [base EXCEPT !.fetched = books,
                                           !.status = 200, !.body = books]
                      ELSE IF putOk
                        THEN /\ store' = KVPut(cacheData, 0, now)
                             /\ last' = [base EXCEPT !.fetched = books, !.put = TRUE,
                                           !.status = 200, !.body = books]
                      ELSE /\ store' = store
                           /\ last' = [base EXCEPT !.fetched = books,
                                         !.putFailed = TRUE, !.status = 500,
                                         !.body = Part001_ErrorBody]
  /\ req' = IdleReq
  /\ UNCHANGED <<worker, now, advances, sch>>

\* the get of the tick
Part001ScheduledBegin ==
  /\ worker = Part001
  /\ sch.pc = "idle"
  /\ \E getOk \in BOOLEAN :
       IF ~getOk
         THEN /\ last' = [NoLast EXCEPT !.path = "scheduled", !.getFailed = TRUE,
                            !.uncaught = ScheduledCatch(TRUE)]
              /\ sch' = sch
         ELSE /\ sch' = [pc |-> "fetching", existing |-> KVGet(store, now),
                         now0 |-> now]
              /\ last' = last
  /\ UNCHANGED <<worker, now, advances, store, req>>

\* the RSS request, the comparison and the put of the tick
Part001ScheduledFinish ==
  /\ worker = Part001
  /\ sch.pc = "fetching"
  /\ \E r \in GoodreadsResponses, putOk \in BOOLEAN :
       LET existingCache == sch.existing
           existingBooks == IF existingCache # Null /\ existingCache.data # Null
                              THEN existingCache.data ELSE Null
           xml == Part001_fetchText(r)
           base == [NoLast EXCEPT !.path = "scheduled", !.read = existingCache,
                      !.called = TRUE, !.malformed = Malformed(r)]
       IN  IF xml.threw
             THEN /\ last' = [base EXCEPT !.failed = TRUE, !.threwAt = "rss"]
                  /\ store' = store
             ELSE LET books == Part001_parseGoodreadsRSS(xml.val)
                      bookChanged == Part001_bookChanged(books, existingBooks)
                      cacheData == [data |-> books, timestamp |-> now,
                                    lastRun |-> NoTime]
                  IN  IF ~bookChanged /\ existingBooks # Null
                        THEN /\ last' = [base EXCEPT !.fetched = books]
                             /\ store' = store
                      ELSE IF putOk
                        THEN /\ store' = KVPut(cacheData, 0, now)
                             /\ last' = [base EXCEPT !.fetched = books, !.put = TRUE]
                      ELSE /\ store' = store
                           /\ last' = [base EXCEPT !.fetched = books,
                                         !.putFailed = TRUE,
                                         !.uncaught = ScheduledCatch(TRUE)]
  /\ sch' = IdleSch
  /\ UNCHANGED <<worker, now, advances, req>>

InitPart001 ==
  /\ worker = Part001
  /\ now = Epoch
  /\ advances = 0
  /\ store = Null
  /\ req = IdleReq
  /\ sch = IdleSch
  /\ last = NoLast
  /\ puts = 0
  /\ history = NoHistory
  /\ tickFetchAt = NoTime
  /\ first = NoFirst
  /\ reqFetch = NoReqFetch
  /\ args = NoArgs
  /\ result = NoResult

\* requests and ticks of the part_001 worker, overlapping
NextPart001 ==
  \/ (Advance /\ Frozen)
  \/ (Part001FetchBegin /\ Frozen)
  \/ (Part001FetchFinish /\ Frozen)
  \/ (Part001ScheduledBegin /\ Frozen)
  \/ (Part001ScheduledFinish /\ Frozen)

SpecPart001 == InitPart001 /\ [][NextPart001]_vars

\* the invocation ending in this step had read an entry with a book and got
\* a response without a book: a non-OK status, or a feed with no item
Part001NoBookStep ==
  /\ worker = Part001
  /\ last'.called /\ ~last'.failed
  /\ (req.pc = "fetching" /\ req'.pc = "idle")
       \/ (sch.pc = "fetching" /\ sch'.pc = "idle")
  /\ last'.fetched # Null
  /\ last'.fetched.current = Null
  /\ last'.read # Null
  /\ last'.read.data.current # Null

\* C34: part_001, both handlers: when the stored entry holds a book and the
\* upstream request answers with a non-OK status or a feed with no item, the
\* entry is not overwritten with current = null.
C34_Part001KeepsBook ==
  [][(/\ Part001NoBookStep
      /\ store # Null
      /\ store.data.current # Null)
     => (store' # Null /\ store'.data.current # Null)]_vars

====
